---------------------------- MODULE Spec2Model ----------------------------
(***************************************************************************)
(* A model of microbin's paste store (src/src/main.rs): the collection     *)
(* `pastas` behind one std::sync::Mutex, the handlers create, getpasta,    *)
(* remove and list, the expiration sweep remove_expired, and the snapshot  *)
(* written by dbio::save_to_file and read back at start.                   *)
(*                                                                         *)
(* Request handlers run as tasks on single-threaded workers.  A task gives *)
(* up its worker only at an .await; Mutex::lock() blocks the whole worker  *)
(* thread.  The handlers redirecturl and getrawpasta treat the collection  *)
(* exactly as getpasta does (lock, decode, sweep, first match) and are     *)
(* covered by the GetPasta action.                                         *)
(*                                                                         *)
(* The modules animalnumbers, dbio and pasta are not part of the sources   *)
(* at hand; to_animal_names, to_u64, save_to_file and load_from_file are   *)
(* modelled from the specification's description of them.                  *)
(***************************************************************************)
EXTENDS Integers, Sequences, FiniteSets, TLC

\* ----------------------------------------------------------------- bounds
\* At most this many records are built by create in one run.
MaxCreates == 2
\* The clock reading at the start of a run, in epoch seconds.
Epoch == 1000

\* The largest id of a record in a snapshot found at start.
MaxId == 2
\* At most this many records are in a snapshot found at start.
MaxLoaded == 2

\* The ids create draws from (the code draws a u16): two, so that two
\* records may or may not share an id.
Ids == {0, 1}

\* The instants the clock may show: the boundary of the 60 s offset around a
\* paste created at Epoch, and one instant after every deadline.
Instants == {Epoch, Epoch + 59, Epoch + 60, Epoch + 61, Epoch + 604800 + 62}

\* Request-handling contexts (tasks) and the worker threads that run them.
Ctx == {1, 2}
Workers == {1, 2}

\* ------------------------------------------------------------------ codec
\* The vocabulary: a fixed ordered list of distinct words; its length is B.
ANIMAL_NAMES == <<"ant", "bee">>

Base == Len(ANIMAL_NAMES)

RECURSIVE Digits(_)
\* The base-B digits of n, most significant first; <<>> for 0.
Digits(n) == IF n = 0 THEN <<>> ELSE Append(Digits(n \div Base), n % Base)

\* encode with the least significant digit first.
to_animal_names_Reversed(n) ==
    IF n = 0 THEN <<ANIMAL_NAMES[1]>>
    ELSE [i \in 1..Len(Digits(n)) |-> ANIMAL_NAMES[Digits(n)[Len(Digits(n)) + 1 - i] + 1]]

\* encode: one word per base-B digit, most significant first; 0 is the
\* vocabulary's zero entry.
to_animal_names(n) ==
    IF n = 0 THEN <<ANIMAL_NAMES[1]>>
    ELSE [i \in 1..Len(Digits(n)) |-> ANIMAL_NAMES[Digits(n)[i] + 1]]

\* The digit value of a word, or -1 when the word is not in the vocabulary.
position(w) ==
    IF \E k \in 1..Base : ANIMAL_NAMES[k] = w
    THEN (CHOOSE k \in 1..Base : ANIMAL_NAMES[k] = w) - 1
    ELSE -1

RECURSIVE Horner(_, _)
Horner(words, acc) ==
    IF words = <<>> THEN acc
    ELSE Horner(Tail(words), acc * Base + position(Head(words)))

InvalidIdentifier == -1

\* decode: the base-B number of the words; fails with InvalidIdentifier when
\* a word is absent from the vocabulary.
to_u64(words) ==
    IF \E i \in 1..Len(words) : position(words[i]) = -1
    THEN InvalidIdentifier
    ELSE Horner(words, 0)

\* ------------------------------------------------------------ paste record
NoTextContent == <<"No", "Text", "Content">>
NoFile == <<"no-file">>

\* Pasta { id, content, file, created, pasta_type, expiration } as create
\* builds it before reading the payload.  serial is not a field of the code:
\* it numbers the records in creation order so that two records with equal
\* fields stay distinguishable.
NewPasta(id, timenow, serial) ==
    [id |-> id, content |-> NoTextContent, file |-> NoFile, created |-> timenow,
     pasta_type |-> "", expiration |-> 0, serial |-> serial]

\* ------------------------------------------------------------ persistence
\* save_to_file: the whole collection, record by record, as one snapshot.
SaveRecord(p) == <<p.id, p.content, p.file, p.created, p.pasta_type, p.expiration, p.serial>>

save_to_file(ps) == [i \in 1..Len(ps) |-> SaveRecord(ps[i])]

LoadRecord(t) ==
    [id |-> t[1], content |-> t[2], file |-> t[3], created |-> t[4],
     pasta_type |-> t[5], expiration |-> t[6], serial |-> t[7]]

\* load_from_file: the records of the snapshot, in order.
load_from_file(snap) == [i \in 1..Len(snap) |-> LoadRecord(snap[i])]

\* ------------------------------------------------------------------ sweep
\* Retained with the deadline taken a second early.
Retained_OffByOne(p, timenow) == p.expiration = 0 \/ p.expiration > timenow + 1

\* Retained without the case of the sentinel 0.
Retained_NoSentinel(p, timenow) == p.expiration > timenow

\* The closure of retain: |p| p.expiration == 0 || p.expiration > timenow.
Retained(p, timenow) == p.expiration = 0 \/ p.expiration > timenow

RECURSIVE remove_expired_SkipAfterRemoval(_, _)
\* remove_expired by index, stepping over the record behind each one removed.
remove_expired_SkipAfterRemoval(ps, timenow) ==
    IF ps = <<>> THEN <<>>
    ELSE IF Head(ps).expiration = 0 \/ Head(ps).expiration > timenow
    THEN <<Head(ps)>> \o remove_expired_SkipAfterRemoval(Tail(ps), timenow)
    ELSE IF Tail(ps) = <<>> THEN <<>>
    ELSE <<Head(Tail(ps))>> \o remove_expired_SkipAfterRemoval(Tail(Tail(ps)), timenow)

\* remove_expired that retains everything.
remove_expired_Skipped(ps, timenow) == ps

\* remove_expired: retain keeps the records in order.
remove_expired(ps, timenow) == SelectSeq(ps, LAMBDA p : Retained(p, timenow))

\* --------------------------------------------------------- classification
UrlTokens == {"https://example.com/x"}
EmailTokens == {"a@example.com"}

TokenKind(tok) ==
    IF tok \in UrlTokens THEN "Url" ELSE IF tok \in EmailTokens THEN "Email" ELSE "Plain"

RECURSIVE Spans(_)
\* LinkFinder::spans: the input cut into its links and the plain text between
\* them; a run of plain tokens is one span.
Spans(content) ==
    IF content = <<>> THEN <<>>
    ELSE LET k == TokenKind(Head(content))
             rest == Spans(Tail(content))
         IN IF k = "Plain" /\ rest # <<>> /\ rest[1].kind = "Plain"
            THEN <<[text |-> <<Head(content)>> \o rest[1].text, kind |-> "Plain"]>> \o Tail(rest)
            ELSE <<[text |-> <<Head(content)>>, kind |-> k]>> \o rest

\* spans[0] of an input without spans is out of bounds: is_valid_url panics.
is_valid_url_panics(url) == Spans(url) = <<>>

\* is_valid_url: the first span is the whole input and is a URL.
is_valid_url(url) == Spans(url)[1].text = url /\ Spans(url)[1].kind = "Url"

\* --------------------------------------------------------- expiration match
\* The offsets of the match arms of create; -1 for the arm that panics.
Offset(word) ==
    CASE word = <<"1min">> -> 60
      [] word = <<"10min">> -> 60 * 10
      [] word = <<"1hour">> -> 60 * 60
      [] word = <<"24hour">> -> 60 * 60 * 24
      [] word = <<"1week">> -> 60 * 60 * 24 * 7
      [] OTHER -> -1

\* ExpirationOf with the offset alone, the clock reading left out.
ExpirationOf_NoClock(word, timenow) ==
    IF word = <<"never">> THEN 0 ELSE Offset(word)

\* The match on the expiration chunk: the deadline, 0 for "never", or -1 when
\* the arm that panics is taken.
ExpirationOf(word, timenow) ==
    IF word = <<"never">> THEN 0
    ELSE IF Offset(word) = -1 THEN -1
    ELSE timenow + Offset(word)

\* ------------------------------------------------------------ the payload
\* A multipart field as the handler sees it: its name, the filename of its
\* content disposition, and the chunks its stream yields.
NoName == <<"None">>

Exp(chunks) == [name |-> "expiration", filename |-> NoName, chunks |-> chunks]
Con(chunks) == [name |-> "content", filename |-> NoName, chunks |-> chunks]
Fil(filename, chunks) == [name |-> "file", filename |-> filename, chunks |-> chunks]
Oth(chunks) == [name |-> "syntax-highlight", filename |-> NoName, chunks |-> chunks]

URL == <<"https://example.com/x">>
TXT == <<"please", "visit">>

\* The payloads a client submits in this model: a text whose expiration field
\* arrives in two chunks, a link with two expiration fields, and an
\* expiration keyword that is none of the six.
Payloads ==
    { <<Exp(<< <<"never">>, <<"1min">> >>), Con(<<TXT>>)>>,
      <<Con(<<URL>>), Exp(<< <<"1week">> >>), Exp(<< <<"never">> >>)>>,
      <<Exp(<< <<"2min">> >>)>> }

\* The same with an upload, behind a field the handler does not know.
Uploads == Payloads \cup { <<Oth(<< <<"rust">> >>), Fil(<<"a", " ", "b">>, << <<"bytes">> >>)>> }

\* filename.replace(' ', "_")
ReplaceSpaces(filename) == [i \in 1..Len(filename) |-> IF filename[i] = " " THEN "_" ELSE filename[i]]

\* The word sequences a client asks for: every id's encoding, and one with a
\* word outside the vocabulary.
Paths == {to_animal_names(i) : i \in Ids} \cup {<<"ant", "zebra">>}

\* ------------------------------------------------------------------ state
VARIABLES
    pastas,     \* AppState.pastas: the collection, a sequence of records
    snapshot,   \* the file written by save_to_file
    files,      \* ./pasta_data: the files stored, each with its bytes
    now,        \* SystemTime::now(), in epoch seconds
    mutex,      \* the Mutex around pastas: its holder (0: free) and its poison flag
    task,       \* per context: the handler it runs and where that stands
    nserial,    \* how many records create has built
    removed,    \* the serials of the records that left the collection
    last        \* the operation completed last, since the clock last moved:
                \* its input and outcome, the collection and snapshot before it

vars == <<pastas, snapshot, files, now, mutex, task, nserial, removed, last>>

NoPasta == NewPasta(0, 0, 0)

Idle ==
    [pc |-> "idle", worker |-> 0, op |-> "none", path |-> <<>>, request |-> <<>>,
     payload |-> <<>>, new_pasta |-> NoPasta, timenow |-> 0]

\* The id of an operation that decoded none.
NoId == InvalidIdentifier - 1

NoOp ==
    [op |-> "none", id |-> NoId, res |-> "none", out |-> 0, payload |-> <<>>,
     pre |-> <<>>, preSnap |-> <<>>]

\* The record of a completed operation; out is the serial of the record it
\* returned, appended or removed (0: none).
Done(op, id, res, out, payload) ==
    [op |-> op, id |-> id, res |-> res, out |-> out, payload |-> payload,
     pre |-> pastas, preSnap |-> snapshot]

Serials(ps) == {ps[i].serial : i \in 1..Len(ps)}

\* main: the collection is what load_from_file returns; no request is running.
Init ==
    /\ pastas = <<>>
    /\ snapshot = <<>>
    /\ files = {}
    /\ now = Epoch
    /\ mutex = [holder |-> 0, poisoned |-> FALSE]
    /\ task = [c \in Ctx |-> Idle]
    /\ nserial = 0
    /\ removed = {}
    /\ last = NoOp

\* A worker thread is free unless one of its tasks is inside Mutex::lock().
ThreadFree(w) == \A c \in Ctx : ~(task[c].worker = w /\ task[c].pc = "lock")

\* A task suspended at an .await is resumed only by its own worker thread.
CanResume(c) == \A d \in Ctx \ {c} : ~(task[d].worker = task[c].worker /\ task[d].pc = "lock")

\* The guard of a panicking task is dropped while unwinding: the mutex is
\* released and poisoned.
Unwind(c) == IF mutex.holder = c THEN [holder |-> 0, poisoned |-> TRUE] ELSE mutex

\* The guard of a returning task is dropped: the mutex is released.
Unlock == [mutex EXCEPT !.holder = 0]

\* ---------------------------------------------------------------- actions
\* The wall clock moves forward.
Tick ==
    /\ \E t \in Instants : t > now /\ now' = t
    /\ last' = NoOp
    /\ UNCHANGED <<pastas, snapshot, files, mutex, task, nserial, removed>>

\* The process is stopped and started again: main builds the collection from
\* load_from_file under a fresh Mutex; every request in flight is gone.
Restart ==
    /\ pastas' = load_from_file(snapshot)
    /\ mutex' = [holder |-> 0, poisoned |-> FALSE]
    /\ task' = [c \in Ctx |-> Idle]
    /\ last' = Done("restart", NoId, "Ok", 0, <<>>)
    /\ UNCHANGED <<snapshot, files, now, nserial, removed>>

\* The requests a client sends: an upload, a lookup or a removal by word
\* sequence, the listing.
RequestsOf(op, P) ==
    IF op = "create" THEN {[op |-> op, path |-> <<>>, payload |-> pl] : pl \in P}
    ELSE IF op = "list" THEN {[op |-> op, path |-> <<>>, payload |-> <<>>]}
    ELSE {[op |-> op, path |-> path, payload |-> <<>>] : path \in Paths}

CreatesBlocked == Cardinality({c \in Ctx : task[c].op = "create" /\ task[c].pc = "lock"})

\* Context c is at data.pastas.lock() on worker w with request r: the request
\* has just arrived on a free worker, or the task has been blocked in lock().
AtLock(c, w, r) ==
    \/ /\ task[c].pc = "idle"
       /\ ThreadFree(w)
       /\ r.op = "create" => nserial + CreatesBlocked < MaxCreates
    \/ /\ task[c].pc = "lock"
       /\ task[c].worker = w
       /\ task[c].op = r.op /\ task[c].path = r.path /\ task[c].request = r.payload

\* A request arrives while another task holds the mutex: lock() blocks the
\* worker thread.
Block(c, W, P) ==
    /\ task[c].pc = "idle"
    /\ mutex.holder # 0
    /\ \E w \in W, op \in {"create", "getpasta", "remove", "list"} :
         \E r \in RequestsOf(op, P) :
           /\ AtLock(c, w, r)
           /\ task' = [task EXCEPT ![c] = [Idle EXCEPT !.pc = "lock", !.worker = w, !.op = op,
                                                       !.path = r.path, !.request = r.payload]]
    /\ UNCHANGED <<pastas, snapshot, files, now, mutex, nserial, removed, last>>

\* lock() returns Err on a poisoned mutex and unwrap() panics.
LockPoisoned(c, W, P) ==
    /\ mutex.holder = 0
    /\ mutex.poisoned
    /\ \E w \in W, op \in {"create", "getpasta", "remove", "list"} :
         \E r \in RequestsOf(op, P) :
           /\ AtLock(c, w, r)
           /\ last' = Done(op, NoId, "PoisonError", 0, r.payload)
    /\ task' = [task EXCEPT ![c] = Idle]
    /\ UNCHANGED <<pastas, snapshot, files, now, mutex, nserial, removed>>

\* create, up to its first .await: the lock, timenow, new_pasta.
CreateLock(c, W, P) ==
    /\ mutex.holder = 0
    /\ ~mutex.poisoned
    /\ \E w \in W, r \in RequestsOf("create", P), id \in Ids :
         /\ AtLock(c, w, r)
         /\ task' = [task EXCEPT ![c] = [Idle EXCEPT !.pc = "payload", !.worker = w,
                                           !.op = "create", !.request = r.payload,
                                           !.payload = r.payload, !.timenow = now,
                                           !.new_pasta = NewPasta(id, now, nserial + 1)]]
    /\ mutex' = [mutex EXCEPT !.holder = c]
    /\ nserial' = nserial + 1
    /\ UNCHANGED <<pastas, snapshot, files, now, removed, last>>

\* std::str::from_utf8(&chunk) fails on bytes that are not UTF-8.
from_utf8_fails(chunk) == \E i \in 1..Len(chunk) : chunk[i] = "0xFF"

\* format!("./pasta_data/{}", new_pasta.id_as_animals())
Dir(p) == to_animal_names(p.id)

\* File::create: the file at dir/name exists and is empty.
FileCreate(fs, dir, name) ==
    {f \in fs : ~(f.dir = dir /\ f.name = name)} \cup {[dir |-> dir, name |-> name, bytes |-> <<>>]}

\* write_all: the chunk is appended to the file at dir/name.
FileWrite(fs, dir, name, chunk) ==
    {IF f.dir = dir /\ f.name = name THEN [f EXCEPT !.bytes = Append(@, chunk)] ELSE f : f \in fs}

\* The kind the "file" arm stores once the upload is written.
KindOfFile == "text"

\* The panic of a task that holds the mutex: the request is gone, the mutex
\* poisoned.
Panicked(c, res) ==
    /\ task' = [task EXCEPT ![c] = Idle]
    /\ mutex' = Unwind(c)
    /\ last' = Done(task[c].op, task[c].new_pasta.id, res, 0, task[c].request)
    /\ UNCHANGED <<pastas, snapshot, now, nserial, removed>>

RECURSIVE ExpirationLoop(_, _, _)
\* The chunk loop of the "expiration" arm: every chunk is matched and sets the
\* deadline; -1 when a chunk is not UTF-8 or takes the arm that panics.
ExpirationLoop(chunks, e, timenow) ==
    IF chunks = <<>> THEN e
    ELSE IF from_utf8_fails(Head(chunks)) \/ ExpirationOf(Head(chunks), timenow) = -1 THEN -1
    ELSE ExpirationLoop(Tail(chunks), ExpirationOf(Head(chunks), timenow), timenow)

\* The chunk loop of the "content" arm panics on a chunk that is not UTF-8 or
\* has no span.
ContentLoopPanics(chunks) ==
    \E i \in 1..Len(chunks) : from_utf8_fails(chunks[i]) \/ is_valid_url_panics(chunks[i])

\* The chunk loop of the "content" arm: every chunk replaces the content and
\* decides the kind, so the last one stays.
ContentLoop(chunks, p) ==
    IF chunks = <<>> THEN p
    ELSE [p EXCEPT !.content = chunks[Len(chunks)],
                   !.pasta_type = IF is_valid_url(chunks[Len(chunks)]) THEN "url" ELSE "text"]

RECURSIVE FileLoop(_, _, _, _)
\* The chunk loop of the "file" arm: every chunk is written to the file.
FileLoop(chunks, fs, dir, name) ==
    IF chunks = <<>> THEN fs
    ELSE FileLoop(Tail(chunks), FileWrite(fs, dir, name, Head(chunks)), dir, name)

\* One turn of the loop over the payload: try_next() yields the next field,
\* the match on field.name() takes its arm, and the arm drains the field.
CreateField(c) ==
    /\ task[c].pc = "payload"
    /\ task[c].payload # <<>>
    /\ mutex.holder = c
    /\ CanResume(c)
    /\ LET f == Head(task[c].payload)
           rest == Tail(task[c].payload)
           p == task[c].new_pasta
           filename == ReplaceSpaces(f.filename)
           e == ExpirationLoop(f.chunks, p.expiration, task[c].timenow)
       IN IF f.name = "expiration" /\ e = -1
          THEN Panicked(c, "UnexpectedExpiration") /\ files' = files
          ELSE IF f.name = "content" /\ ContentLoopPanics(f.chunks)
          THEN Panicked(c, "ContentPanic") /\ files' = files
          ELSE /\ task' = [task EXCEPT ![c].payload = rest,
                             ![c].new_pasta =
                                 IF f.name = "expiration" THEN [p EXCEPT !.expiration = e]
                                 ELSE IF f.name = "content" THEN ContentLoop(f.chunks, p)
                                 ELSE IF f.name = "file" /\ f.filename \notin {<<>>, NoName}
                                 THEN [p EXCEPT !.file = filename, !.pasta_type = KindOfFile]
                                 ELSE p]
               /\ files' = IF f.name = "file" /\ f.filename \notin {<<>>, NoName}
                           THEN FileLoop(f.chunks, FileCreate(files, Dir(p), filename),
                                         Dir(p), filename)
                           ELSE files
               /\ UNCHANGED <<pastas, snapshot, now, mutex, nserial, removed, last>>

\* try_next() yields an error (the client went away, the multipart is
\* malformed): `?` returns it and the guard is dropped.
CreateError(c) ==
    /\ task[c].pc = "payload"
    /\ mutex.holder = c
    /\ CanResume(c)
    /\ task' = [task EXCEPT ![c] = Idle]
    /\ mutex' = Unlock
    /\ last' = Done("create", task[c].new_pasta.id, "Err", 0, task[c].request)
    /\ UNCHANGED <<pastas, snapshot, files, now, nserial, removed>>

\* pastas.push(new_pasta)
Push(ps, p) == Append(ps, p)

\* The payload is at its end: push, save_to_file, the redirect.
CreateFinish(c) ==
    /\ task[c].pc = "payload"
    /\ task[c].payload = <<>>
    /\ mutex.holder = c
    /\ CanResume(c)
    /\ pastas' = Push(pastas, task[c].new_pasta)
    /\ snapshot' = save_to_file(pastas')
    /\ task' = [task EXCEPT ![c] = Idle]
    /\ mutex' = Unlock
    /\ last' = Done("create", task[c].new_pasta.id, "Ok", task[c].new_pasta.serial, task[c].request)
    /\ UNCHANGED <<files, now, nserial, removed>>

\* FirstMatch that takes the last record with the id.
FirstMatch_Last(ps, id) ==
    IF \E i \in 1..Len(ps) : ps[i].id = id
    THEN CHOOSE i \in 1..Len(ps) : ps[i].id = id /\ \A j \in (i + 1)..Len(ps) : ps[j].id # id
    ELSE 0

\* The index of the first record whose id is `id`; 0 when there is none.
FirstMatch(ps, id) ==
    IF \E i \in 1..Len(ps) : ps[i].id = id
    THEN CHOOSE i \in 1..Len(ps) : ps[i].id = id /\ \A j \in 1..(i - 1) : ps[j].id # id
    ELSE 0

\* Vec::remove(i)
RemoveAt(ps, i) == SubSeq(ps, 1, i - 1) \o SubSeq(ps, i + 1, Len(ps))

\* Polled without the wait for the mutex.
Polled_Unlocked(c, op, path) ==
    /\ ~mutex.poisoned
    /\ \E w \in Workers : AtLock(c, w, [op |-> op, path |-> path, payload |-> <<>>])

\* A handler without an .await runs from lock() to its return in one poll.
Polled(c, op, path) ==
    /\ mutex.holder = 0
    /\ ~mutex.poisoned
    /\ \E w \in Workers : AtLock(c, w, [op |-> op, path |-> path, payload |-> <<>>])

\* to_u64 failed inside the handler, which holds the guard: the panic poisons
\* the mutex.
DecodePanic(c, op) ==
    /\ task' = [task EXCEPT ![c] = Idle]
    /\ mutex' = [holder |-> 0, poisoned |-> TRUE]
    /\ last' = Done(op, InvalidIdentifier, "InvalidIdentifier", 0, <<>>)
    /\ UNCHANGED <<pastas, snapshot, files, now, nserial, removed>>

\* getpasta: lock, to_u64, remove_expired, the first record with the id.  The
\* word sequence asked for is kept with the outcome.
GetPastaOf(c, PS) ==
    \E path \in PS :
      /\ Polled(c, "getpasta", path)
      /\ LET id == to_u64(path)
             swept == remove_expired(pastas, now)
             i == FirstMatch(swept, id)
         IN IF id = InvalidIdentifier
            THEN DecodePanic(c, "getpasta")
            ELSE /\ pastas' = swept
                 /\ removed' = removed \cup (Serials(pastas) \ Serials(swept))
                 /\ task' = [task EXCEPT ![c] = Idle]
                 /\ last' = IF i = 0 THEN Done("getpasta", id, "NotFound", 0, path)
                            ELSE Done("getpasta", id, "Found", swept[i].serial, path)
                 /\ UNCHANGED <<snapshot, files, now, mutex, nserial>>

GetPasta(c) == GetPastaOf(c, Paths)

\* remove: lock, to_u64, remove_expired, Vec::remove of the first record with
\* the id.
RemoveOf(c, PS) ==
    \E path \in PS :
      /\ Polled(c, "remove", path)
      /\ LET id == to_u64(path)
             swept == remove_expired(pastas, now)
             i == FirstMatch(swept, id)
             kept == IF i = 0 THEN swept ELSE RemoveAt(swept, i)
         IN IF id = InvalidIdentifier
            THEN DecodePanic(c, "remove")
            ELSE /\ pastas' = kept
                 /\ removed' = removed \cup (Serials(pastas) \ Serials(kept))
                 /\ task' = [task EXCEPT ![c] = Idle]
                 /\ last' = IF i = 0 THEN Done("remove", id, "NotFound", 0, path)
                            ELSE Done("remove", id, "Ok", swept[i].serial, path)
                 /\ UNCHANGED <<snapshot, files, now, mutex, nserial>>

Remove(c) == RemoveOf(c, Paths)

\* list: lock, remove_expired, the whole collection.
List(c) ==
    /\ Polled(c, "list", <<>>)
    /\ pastas' = remove_expired(pastas, now)
    /\ removed' = removed \cup (Serials(pastas) \ Serials(pastas'))
    /\ task' = [task EXCEPT ![c] = Idle]
    /\ last' = Done("list", NoId, "Ok", 0, <<>>)
    /\ UNCHANGED <<snapshot, files, now, mutex, nserial>>

\* ------------------------------------------------------------ specification
\* The steps of the requests with payloads P handled by the contexts C on the
\* workers W.
Requests(C, W, P) ==
    \/ \E c \in C : LockPoisoned(c, W, P)
    \/ \E c \in C : CreateLock(c, W, P)
    \/ \E c \in C : CreateField(c)
    \/ \E c \in C : CreateError(c)
    \/ \E c \in C : CreateFinish(c)
    \/ \E c \in C : GetPasta(c)
    \/ \E c \in C : Remove(c)
    \/ \E c \in C : List(c)

\* One request at a time, the clock running, the process restarting.
Next == Tick \/ Restart \/ Requests({1}, {1}, Payloads)

Spec == Init /\ [][Next]_vars

\* Requests in every context, interleaved at their .await points, in one run
\* of the process.
NextConc ==
    \/ \E c \in Ctx : Block(c, Workers, Uploads)
    \/ Requests(Ctx, Workers, Uploads)

SpecConc == Init /\ [][NextConc]_vars

\* The process starts on a snapshot left by earlier runs: up to MaxLoaded
\* records with ids up to MaxId, without a deadline or with the 60 s one,
\* numbered in the order of the snapshot; the clock shows any instant.
LoadedIds == 0..MaxId

Deadlines == {0, Epoch + 60}

LoadedRecord(id, e, k) == [NewPasta(id, Epoch, k) EXCEPT !.expiration = e]

Snapshots == UNION {[1..n -> LoadedIds \X Deadlines] : n \in 0..MaxLoaded}

LoadedPaths == {to_animal_names(i) : i \in LoadedIds} \cup {<<"ant", "zebra">>}

InitLoaded ==
    /\ \E s \in Snapshots :
         snapshot = [k \in 1..Len(s) |-> SaveRecord(LoadedRecord(s[k][1], s[k][2], k))]
    /\ pastas = load_from_file(snapshot)
    /\ files = {}
    /\ now \in Instants
    /\ mutex = [holder |-> 0, poisoned |-> FALSE]
    /\ task = [c \in Ctx |-> Idle]
    /\ nserial = Len(pastas)
    /\ removed = {}
    /\ last = NoOp

\* Lookups, removals and listings, one at a time, the clock running.
NextLoaded ==
    \/ Tick
    \/ GetPastaOf(1, LoadedPaths)
    \/ RemoveOf(1, LoadedPaths)
    \/ List(1)

SpecLoaded == InitLoaded /\ [][NextLoaded]_vars

\* ------------------------------------------------------------------ claims
\* What the claims say, in their own terms.
InSeq(p, ps) == \E i \in 1..Len(ps) : ps[i] = p

\* A deadline that has not passed by time t, or none.
StillDue(p, t) == p.expiration = 0 \/ t < p.expiration

\* The operation completed last decoded a valid id and ran to its return.
Returned(op) == last.op = op /\ last.res \in {"Ok", "Found", "NotFound"}

\* C1: after remove(id) reported success on an id that matched a record, a
\* find(id) with no create in between reports NotFound, whatever the
\* collection, two records with one id included.
C1_RemoveThenFindNotFound ==
    (Returned("remove") /\ last.res = "Ok")
        => FirstMatch(remove_expired(pastas, now), last.id) = 0

\* C2: after every completed create and every completed remove, with the lock
\* free, the persisted snapshot holds the records of the collection, in order.
C2_SnapshotEqualsCollection ==
    (mutex.holder = 0 /\ last.op \in {"create", "remove"} /\ last.res = "Ok")
        => load_from_file(snapshot) = pastas

\* C3: removed is terminal: a record that left the collection, by remove or by
\* the sweep, is never in the collection again, a restart included.
C3_RemovedIsTerminal == \A i \in 1..Len(pastas) : pastas[i].serial \notin removed

\* C4: a create whose expiration choice is none of the six is rejected for
\* that request only: no record is appended, collection and snapshot are
\* unchanged, and the lock stays usable for every operation after it.
C4_BadExpirationRejectsOneRequest ==
    /\ last.res = "UnexpectedExpiration"
         => pastas = last.pre /\ snapshot = last.preSnap /\ ~mutex.poisoned
    /\ last.res # "PoisonError"

\* A started create can still take a step: its own next one, or, while it
\* waits in lock(), the next one of the holder.
CanComplete(c) ==
    IF task[c].pc = "lock"
    THEN mutex.holder = 0 \/ CanResume(mutex.holder)
    ELSE CanResume(c)

\* C5: concurrent creates all complete under every interleaving, and each
\* one's record is in the collection, behind the records that were there,
\* when it has returned.
C5_ConcurrentCreatesComplete ==
    /\ \A c \in Ctx : (task[c].op = "create" /\ task[c].pc # "idle") => CanComplete(c)
    /\ (last.op = "create" /\ last.res = "Ok")
         => /\ Len(pastas) = Len(last.pre) + 1
            /\ SubSeq(pastas, 1, Len(last.pre)) = last.pre
            /\ pastas[Len(pastas)].serial = last.out

C7_NeverExpires ==
    \A i \in 1..Len(last.pre) :
        last.pre[i].expiration = 0 =>
            \/ InSeq(last.pre[i], pastas)
            \/ last.op = "remove" /\ last.res = "Ok" /\ last.out = last.pre[i].serial

\* After the last deadline a sweep evicted a paste and kept the one without a
\* deadline.
C7_Witness ==
    /\ last.op \in {"getpasta", "list"}
    /\ now > Epoch + 61
    /\ Len(pastas) < Len(last.pre)
    /\ \E i \in 1..Len(pastas) : pastas[i].expiration = 0

\* C8: a lookup or removal whose word sequence has a word outside the
\* vocabulary is answered as not found: the collection is unchanged and the
\* lock is left usable.
C8_InvalidIdentifierIsNotFound ==
    (last.op \in {"getpasta", "remove"} /\ last.id = InvalidIdentifier)
        => last.res = "NotFound" /\ pastas = last.pre /\ ~mutex.poisoned

\* C9 as stated: remove(id) for an id that matches no record reports NotFound
\* and leaves collection and snapshot as they were.
C9_RemoveMissChangesNothing ==
    (Returned("remove") /\ \A i \in 1..Len(last.pre) : last.pre[i].id # last.id)
        => last.res = "NotFound" /\ pastas = last.pre /\ snapshot = last.preSnap

\* C9 amended: remove(id) for an id that matches no record whose deadline is
\* still due reports NotFound; the collection loses the records whose deadline
\* has passed and no other, and the snapshot is as it was.
C9_RemoveMissSweepsOnly ==
    (Returned("remove") /\ \A i \in 1..Len(last.pre) :
                              last.pre[i].id = last.id => ~StillDue(last.pre[i], now))
        => /\ last.res = "NotFound"
           /\ pastas = SelectSeq(last.pre, LAMBDA p : StillDue(p, now))
           /\ snapshot = last.preSnap

\* A remove that matched nothing and swept a record away.
C9_Witness ==
    /\ Returned("remove")
    /\ last.res = "NotFound"
    /\ Len(pastas) < Len(last.pre)

\* The kind the specification gives to a payload: file with an upload of a
\* nonempty filename, url when the content is one link and nothing else, text
\* otherwise.
HasUpload(pl) == \E i \in 1..Len(pl) : pl[i].name = "file" /\ pl[i].filename \notin {<<>>, NoName}

RECURSIVE Concat(_)
Concat(chunks) == IF chunks = <<>> THEN <<>> ELSE Head(chunks) \o Concat(Tail(chunks))

RECURSIVE ContentOf(_)
ContentOf(pl) ==
    IF pl = <<>> THEN <<>>
    ELSE (IF Head(pl).name = "content" THEN Concat(Head(pl).chunks) ELSE <<>>) \o ContentOf(Tail(pl))

KindOf(pl) ==
    IF HasUpload(pl) THEN "file"
    ELSE IF Len(ContentOf(pl)) = 1 /\ ContentOf(pl)[1] \in UrlTokens THEN "url"
    ELSE "text"

\* C10: the kind create stores is the kind of the submitted fields: file with
\* an upload, else url for a single link, else text.
C10_KindOfSubmittedFields ==
    (last.op = "create" /\ last.res = "Ok")
        => pastas[Len(pastas)].pasta_type = KindOf(last.payload)

\* C11: once an operation has taken a paste with an attached file out of the
\* collection, by remove or by the sweep, no stored file keyed by the paste's
\* encoded identifier remains.
C11_RemovalDeletesFile ==
    last.op \in {"remove", "getpasta", "list"} =>
        \A i \in 1..Len(last.pre) :
            (last.pre[i].file # NoFile /\ ~InSeq(last.pre[i], pastas))
                => ~\E f \in files : f.dir = to_animal_names(last.pre[i].id)

\* C12: the sweep is idempotent: sweeping the swept collection again, with no
\* time passing, leaves the same sequence of records.
C12_SweepIdempotent ==
    (last.op = "list" /\ last.res = "Ok")
        => /\ remove_expired(pastas, now) = pastas
           /\ remove_expired(remove_expired(last.pre, now), now) = remove_expired(last.pre, now)

\* A listing whose sweep evicted a record and kept another.
C12_Witness ==
    /\ last.op = "list"
    /\ Len(pastas) < Len(last.pre)
    /\ Len(pastas) > 0

\* C13: decode(encode(i)) = i for every id i, 0 included: a lookup or removal
\* by the words of i decodes to i, and the words of every record's id decode
\* to that id.
C13_CodecRoundTrips ==
    /\ \A i \in LoadedIds :
         (last.op \in {"getpasta", "remove"} /\ last.payload = to_animal_names(i))
             => last.id = i
    /\ \A k \in 1..Len(pastas) : to_u64(to_animal_names(pastas[k].id)) = pastas[k].id

\* A lookup by a sequence of two words found the record of that id.
C13_Witness ==
    /\ last.op = "getpasta"
    /\ last.res = "Found"
    /\ Len(last.payload) = 2
    /\ last.payload = to_animal_names(last.id)

\* C14: a started operation runs to completion: no reachable state has a
\* context waiting in lock() for a holder that is suspended on the worker the
\* waiter blocks.
C14_StartedOperationsReturn ==
    \A c \in Ctx :
        task[c].pc = "lock"
            => mutex.holder = 0 \/ task[mutex.holder].worker # task[c].worker

\* C15: the bytes of an upload are written outside the critical section: no
\* step changes the stored files while a context holds the collection lock.
C15_FileWritesOutsideLock == [][files' # files => mutex.holder = 0]_vars

\* The context that is between its lock() and its return.
InCriticalSection(c) == task[c].pc = "payload"

\* C16: every operation holds the one lock from its first access to its
\* return, the persistence write included: the context inside the critical
\* section is the holder, and an operation completes, or the collection or
\* the snapshot changes, only by the holder's step or with the lock free.
C16_MutualExclusion ==
    /\ [](\A c \in Ctx : InCriticalSection(c) <=> mutex.holder = c)
    /\ [][((last' # last \/ pastas' # pastas \/ snapshot' # snapshot) /\ last'.op # "restart")
             => \/ mutex.holder = 0 /\ mutex'.holder = 0
                \/ /\ InCriticalSection(mutex.holder)
                   /\ last'.op = "create"
                   /\ mutex'.holder = 0]_vars

\* A request waits in lock() while a create is inside the critical section.
C16_Witness ==
    \E c, d \in Ctx :
        /\ task[c].pc = "lock"
        /\ InCriticalSection(d)
        /\ mutex.holder = d

\* A deadline that is set and lies strictly before time t.
PastDeadline(p, t) == p.expiration # 0 /\ p.expiration < t

\* C17: the sweep removes exactly the records whose deadline is nonzero and
\* strictly before the current time and keeps the others in their order; a
\* record whose deadline equals the current time survives.
C17_SweepStrictlyBefore ==
    (last.op = "list" /\ last.res = "Ok")
        => pastas = SelectSeq(last.pre, LAMBDA p : ~PastDeadline(p, now))

\* C18: the sweep runs before every operation, create included: when create,
\* find, remove or list has completed, neither the collection nor a snapshot
\* the operation wrote holds a record whose deadline had passed when the
\* operation started.
C18_SweepBeforeEveryOperation ==
    (last.op \in {"create", "getpasta", "remove", "list"} /\ last.res \in {"Ok", "Found", "NotFound"})
        => LET start == IF last.op = "create" THEN pastas[Len(pastas)].created ELSE now
               written == load_from_file(snapshot)
           IN /\ \A i \in 1..Len(pastas) : ~PastDeadline(pastas[i], start)
              /\ last.op = "create" => \A i \in 1..Len(written) : ~PastDeadline(written[i], start)

\* The records of the collection before the operation whose deadline is
\* still due now, in their order.
Survivors == SelectSeq(last.pre, LAMBDA p : StillDue(p, now))

\* The records are in the order of their creation.
Ordered(ps) == \A i, j \in 1..Len(ps) : i < j => ps[i].serial < ps[j].serial

\* The serial of the earliest-created record of ps with the id; 0 for none.
Earliest(ps, id) ==
    IF \E i \in 1..Len(ps) : ps[i].id = id
    THEN CHOOSE n \in {ps[i].serial : i \in {k \in 1..Len(ps) : ps[k].id = id}} :
             \A i \in 1..Len(ps) : ps[i].id = id => n <= ps[i].serial
    ELSE 0

\* C19: the collection is in insertion order after every operation: create
\* appends one record behind the unchanged others; find and list leave the
\* survivors of the sweep in their order; find returns, and remove deletes,
\* the earliest-inserted survivor with the id, remove exactly that one.
C19_InsertionOrder ==
    /\ Ordered(pastas)
    /\ (last.op = "create" /\ last.res = "Ok")
         => /\ Len(pastas) = Len(last.pre) + 1
            /\ \A i \in 1..Len(last.pre) : pastas[i] = last.pre[i]
    /\ (Returned("getpasta") \/ Returned("list") \/ (Returned("remove") /\ last.res = "NotFound"))
         => pastas = Survivors
    /\ (Returned("getpasta") \/ Returned("remove"))
         => last.out = Earliest(Survivors, last.id)
    /\ (Returned("remove") /\ last.res = "Ok")
         => /\ Len(pastas) = Len(Survivors) - 1
            /\ pastas = SelectSeq(Survivors, LAMBDA p : p.serial # last.out)

\* A remove took the earlier of two records with one id and left the later.
C19_Witness ==
    /\ Returned("remove")
    /\ last.res = "Ok"
    /\ Len(last.pre) = 2
    /\ Len(pastas) = 1
    /\ pastas[1].id = last.id
    /\ pastas[1].serial > last.out

\* The offsets a client can choose, in seconds.
FixedOffsets == {60, 600, 3600, 86400, 604800}

\* C20: every record of the collection has no deadline or the deadline
\* created + offset for one of the fixed offsets, beyond created, also when
\* the request had several expiration fields or chunks; no operation changes
\* created or expiration of a record it leaves in the collection.
C20_DeadlineIsCreatedPlusOffset ==
    /\ \A i \in 1..Len(pastas) :
         \/ pastas[i].expiration = 0
         \/ /\ \E o \in FixedOffsets : pastas[i].expiration = pastas[i].created + o
            /\ pastas[i].expiration > pastas[i].created
    /\ \A i \in 1..Len(pastas), j \in 1..Len(last.pre) :
         pastas[i].serial = last.pre[j].serial
             => /\ pastas[i].created = last.pre[j].created
                /\ pastas[i].expiration = last.pre[j].expiration

\* A create whose expiration field came in two chunks appended a record with
\* the 60 s deadline behind a record that kept its own.
C20_Witness ==
    /\ last.op = "create"
    /\ last.res = "Ok"
    /\ \E k \in 1..Len(last.payload) :
         last.payload[k].name = "expiration" /\ Len(last.payload[k].chunks) = 2
    /\ Len(pastas) = 2
    /\ pastas[2].expiration = pastas[2].created + 60

=============================================================================
